---- MODULE Spec2Model ----
(***************************************************************************)
(* Model of sie_banxico.SIEBanxico (src/sie_banxico/sie_banxico.py): one   *)
(* client object, its constructor, its three mutators and its four fetch   *)
(* methods.  Every method is one action that models the whole call, from   *)
(* argument validation to the value returned or the exception raised.      *)
(*                                                                         *)
(* Python values.  A scalar argument (token, language, pct_change, dates)  *)
(* is a record [t, s]: t is the name of its Python type and s the text of  *)
(* a str (empty for other types).  An id_series argument is a record       *)
(* [t, c, l]: c is the character sequence of a str, l the items of a list. *)
(* The selector self.series is a Python str kept as a sequence of          *)
(* characters, so that ','.join and += are computed character by           *)
(* character.                                                              *)
(***************************************************************************)
EXTENDS Integers, Sequences, FiniteSets, TLC

VARIABLES pc, token, series, url, headers, params, language, call

vars == <<pc, token, series, url, headers, params, language, call>>

(* ---------------------------------------------------------------- bounds *)
\* longest list of series ids passed to set_id_series / append_id_series
MaxIds == 2
\* append_id_series is not taken once the selector would exceed this length
MaxSelectorLen == 3

(* --------------------------------------------------------- Python values *)
Str(s) == [t |-> "str", s |-> s]
None == [t |-> "NoneType", s |-> ""]
PyInt == [t |-> "int", s |-> ""]

IdStr(c) == [t |-> "str", c |-> c, l |-> <<>>]
IdList(l) == [t |-> "list", c |-> <<>>, l |-> l]
IdNone == [t |-> "NoneType", c |-> <<>>, l |-> <<>>]
\* an item of an id list: a str with its characters, or an int
Item(c) == [t |-> "str", c |-> c]
IntItem == [t |-> "int", c |-> <<>>]

(* ------------------------------------------------------- argument domains *)
TokenArgs == {Str("t1"), Str("t2"), Str(""), PyInt}
LanguageArgs == {Str("en"), Str("es"), Str("fr"), PyInt}
PctArgs == {None, Str("PorcObsAnt"), Str("PorcAnual"), Str("PorcAcumAnual"),
            Str("bogus"), PyInt}
DateArgs == {Str("2020-01-01"), PyInt}
Ids == {<<"A">>, <<"B">>}
IdItems == {Item(c) : c \in Ids}
IdLists == UNION {[1..n -> IdItems] : n \in 0..MaxIds}
IdSeriesArgs == {IdList(l) : l \in IdLists} \cup {IdList(<<IntItem>>)}
                \cup {IdStr(<<"A">>), IdStr(<<"A", "-", "B">>), IdNone}
Statuses == {200, 204, 404}
Bodies == {"{\"bmx\":{\"series\":[]}}", "{}"}

(* ------------------------------------------------------------ str.join   *)
RECURSIVE Join(_)
\* ','.join(l) for a list l of str items
Join(l) ==
    IF Len(l) = 0 THEN <<>>
    ELSE IF Len(l) = 1 THEN l[1].c
    ELSE l[1].c \o <<",">> \o Join(Tail(l))

\* ','.join raises TypeError when an item is not a str
JoinError(l) == \E i \in 1..Len(l) : l[i].t # "str"

(* -------------------------------------------------------------- set_token *)
\* variant: only None is rejected (`if token is None`)
TokenError_NoneOnly(tok) == IF tok = None THEN "TypeError" ELSE "none"

TokenError(tok) == IF tok.t # "str" THEN "TypeError" ELSE "none"

(* ---------------------------------------------------------- set_id_series *)
IdSeriesError(ids) ==
    IF ids.t \notin {"list", "str"} THEN "TypeError"
    ELSE IF ids.t = "list" /\ JoinError(ids.l) THEN "TypeError"
    ELSE "none"

IdSeriesValue(ids) == IF ids.t = "list" THEN Join(ids.l) ELSE ids.c

(* ------------------------------------------------------- append_id_series *)
AppendError(ids) ==
    IF ids.t # "list" THEN "TypeError"
    ELSE IF JoinError(ids.l) THEN "TypeError"
    ELSE "none"

AppendValue(old, ids) == old \o <<",">> \o Join(ids.l)

(* --------------------------------------------------------- __set_language *)
\* variant: the test for 'es' is lost
LanguageError_EnOnly(lang) ==
    IF lang.t # "str" THEN "TypeError"
    ELSE IF lang.s = "en" THEN "none"
    ELSE "ValueError"

LanguageError(lang) ==
    IF lang.t # "str" THEN "TypeError"
    ELSE IF lang.s = "en" \/ lang.s = "es" THEN "none"
    ELSE "ValueError"

(* ------------------------------------------------------- __set_pct_change *)
\* variant: the membership test is lost, any str passes
PctChangeError_TypeOnly(pct) ==
    IF pct # None /\ pct.t # "str" THEN "TypeError" ELSE "none"

\* variant: the membership test comes before the type test
PctChangeError_ValueFirst(pct) ==
    IF pct \notin {None, Str("PorcObsAnt"), Str("PorcAnual"), Str("PorcAcumAnual")}
    THEN "ValueError"
    ELSE IF pct # None /\ pct.t # "str" THEN "TypeError"
    ELSE "none"

PctChangeError(pct) ==
    IF pct # None /\ pct.t # "str" THEN "TypeError"
    ELSE IF pct \notin {None, Str("PorcObsAnt"), Str("PorcAnual"), Str("PorcAcumAnual")}
         THEN "ValueError"
    ELSE "none"

\* variant: a None pct_change is not written (`if pct_change:`)
PctChangeParams_SkipNone(p, pct) ==
    IF pct = None THEN p
    ELSE [k \in DOMAIN p \cup {"incremento"} |-> IF k = "incremento" THEN pct ELSE p[k]]

\* variant: the mapping is replaced instead of updated
PctChangeParams_Fresh(p, pct) == [k \in {"incremento"} |-> pct]

\* self.__params['incremento'] = pct_change
PctChangeParams(p, pct) ==
    [k \in DOMAIN p \cup {"incremento"} |-> IF k = "incremento" THEN pct ELSE p[k]]

(* ------------------------------------------------------------- date check *)
DateError(init, end) ==
    IF init.t # "str" \/ end.t # "str" THEN "TypeError" ELSE "none"

(* ----------------------------------------------------------- status check *)
\* variant: every 2xx status counts as success
StatusOk_2xx(status) == status >= 200 /\ status < 300

StatusOk(status) == status = 200

(* ------------------------------------------------------------ call record *)
\* what the most recent call was, with what arguments, and how it ended
NoCall ==
    [op |-> "none", tok |-> None, ids |-> IdNone, lang |-> None, pct |-> None,
     init |-> None, end |-> None, err |-> "none", reqs |-> <<>>,
     status |-> 0, body |-> "", msg |-> [text |-> "", code |-> 0],
     ret |-> [given |-> FALSE, value |-> ""]]

Hint == "Something go wrong with the request. Review the token or series id.\nStatus code: "
HintRange == "Something go wrong with the request. Review the token, series id or date format.\nStatus code: "

Init ==
    /\ pc = "new"
    /\ token = None
    /\ series = <<>>
    /\ url = ""
    /\ headers = [k \in {} |-> None]
    /\ params = [k \in {} |-> None]
    /\ language = None
    /\ call = NoCall

(* ------------------------------------------------------------ constructor *)
\* SIEBanxico(token, id_series, language): set_token, set_id_series, url,
\* headers, params, __set_language, in this order; an exception leaves no
\* object behind.
SIEBanxico_init(tok, ids, lang) ==
    /\ pc = "new"
    /\ LET err == IF TokenError(tok) # "none" THEN TokenError(tok)
                  ELSE IF IdSeriesError(ids) # "none" THEN IdSeriesError(ids)
                  ELSE LanguageError(lang)
           c == [NoCall EXCEPT !.op = "init", !.tok = tok, !.ids = ids,
                               !.lang = lang, !.err = err]
       IN  /\ call' = c
           /\ IF err # "none"
              THEN UNCHANGED <<pc, token, series, url, headers, params, language>>
              ELSE /\ pc' = "ready"
                   /\ token' = tok
                   /\ series' = IdSeriesValue(ids)
                   /\ url' = "https://www.banxico.org.mx/SieAPIRest/service/v1/series/"
                   /\ headers' = [k \in {"Bmx-Token"} |-> tok]
                   /\ language' = lang
                   /\ params' = [k \in {"locale"} |-> lang]

(* --------------------------------------------------------------- mutators *)
set_token(tok) ==
    /\ pc = "ready"
    /\ call' = [NoCall EXCEPT !.op = "set_token", !.tok = tok, !.err = TokenError(tok)]
    /\ token' = IF TokenError(tok) = "none" THEN tok ELSE token
    /\ UNCHANGED <<pc, series, url, headers, params, language>>

set_id_series(ids) ==
    /\ pc = "ready"
    /\ call' = [NoCall EXCEPT !.op = "set_id_series", !.ids = ids,
                              !.err = IdSeriesError(ids)]
    /\ series' = IF IdSeriesError(ids) = "none" THEN IdSeriesValue(ids) ELSE series
    /\ UNCHANGED <<pc, token, url, headers, params, language>>

append_id_series(ids) ==
    /\ pc = "ready"
    /\ AppendError(ids) = "none" => Len(AppendValue(series, ids)) <= MaxSelectorLen
    /\ call' = [NoCall EXCEPT !.op = "append_id_series", !.ids = ids,
                              !.err = AppendError(ids)]
    /\ series' = IF AppendError(ids) = "none" THEN AppendValue(series, ids) ELSE series
    /\ UNCHANGED <<pc, token, url, headers, params, language>>

(* ---------------------------------------------------------------- fetches *)
\* requests.get(url, headers = self.__headers, params = self.__params)
Request(suffix, p) ==
    [url |-> <<url>> \o series \o suffix, headers |-> headers, params |-> p]

\* the part every fetch method shares once its arguments passed validation:
\* one GET, answered by the transport with some status and body, then the
\* status check
Fetch(c, suffix, hint, p) ==
    \E status \in Statuses, body \in Bodies :
        /\ params' = p
        /\ call' = IF StatusOk(status)
                   THEN [c EXCEPT !.reqs = <<Request(suffix, p)>>,
                                  !.status = status, !.body = body,
                                  !.ret = [given |-> TRUE, value |-> body]]
                   ELSE [c EXCEPT !.reqs = <<Request(suffix, p)>>,
                                  !.status = status, !.body = body,
                                  !.err = "RequestException",
                                  !.msg = [text |-> hint, code |-> status]]
        /\ UNCHANGED <<pc, token, series, url, headers, language>>

get_metadata ==
    /\ pc = "ready"
    /\ Fetch([NoCall EXCEPT !.op = "get_metadata"], <<>>, Hint,
             PctChangeParams(params, None))

get_lastdata(pct) ==
    /\ pc = "ready"
    /\ LET c == [NoCall EXCEPT !.op = "get_lastdata", !.pct = pct]
       IN  IF PctChangeError(pct) # "none"
           THEN /\ call' = [c EXCEPT !.err = PctChangeError(pct)]
                /\ UNCHANGED <<pc, token, series, url, headers, params, language>>
           ELSE Fetch(c, <<"/datos/oportuno">>, Hint, PctChangeParams(params, pct))

get_timeseries(pct) ==
    /\ pc = "ready"
    /\ LET c == [NoCall EXCEPT !.op = "get_timeseries", !.pct = pct]
       IN  IF PctChangeError(pct) # "none"
           THEN /\ call' = [c EXCEPT !.err = PctChangeError(pct)]
                /\ UNCHANGED <<pc, token, series, url, headers, params, language>>
           ELSE Fetch(c, <<"/datos">>, Hint, PctChangeParams(params, pct))

get_timeseries_range(init, end, pct) ==
    /\ pc = "ready"
    /\ LET c == [NoCall EXCEPT !.op = "get_timeseries_range", !.pct = pct,
                               !.init = init, !.end = end]
       IN  IF PctChangeError(pct) # "none"
           THEN /\ call' = [c EXCEPT !.err = PctChangeError(pct)]
                /\ UNCHANGED <<pc, token, series, url, headers, params, language>>
           ELSE IF DateError(init, end) # "none"
           THEN \* incremento is already written when the dates are checked
                /\ call' = [c EXCEPT !.err = DateError(init, end)]
                /\ params' = PctChangeParams(params, pct)
                /\ UNCHANGED <<pc, token, series, url, headers, language>>
           ELSE Fetch(c, <<"/datos/", init.s, "/", end.s>>, HintRange,
                      PctChangeParams(params, pct))

Next ==
    \/ \E tok \in TokenArgs, ids \in IdSeriesArgs, lang \in LanguageArgs :
          SIEBanxico_init(tok, ids, lang)
    \/ \E tok \in TokenArgs : set_token(tok)
    \/ \E ids \in IdSeriesArgs : set_id_series(ids)
    \/ \E ids \in IdSeriesArgs : append_id_series(ids)
    \/ get_metadata
    \/ \E pct \in PctArgs : get_lastdata(pct)
    \/ \E pct \in PctArgs : get_timeseries(pct)
    \/ \E i \in DateArgs, e \in DateArgs, pct \in PctArgs :
          get_timeseries_range(i, e, pct)

Spec == Init /\ [][Next]_vars

(* ----------------------------------------------------------------- claims *)
FetchOps == {"get_metadata", "get_lastdata", "get_timeseries", "get_timeseries_range"}
PctOps == {"get_lastdata", "get_timeseries", "get_timeseries_range"}
Accepted == {None, Str("PorcObsAnt"), Str("PorcAnual"), Str("PorcAcumAnual")}
ValidationErrors == {"TypeError", "ValueError"}

\* the incremento query parameter of a request: requests leaves a None value out
SentIncremento(req) ==
    IF "incremento" \in DOMAIN req.params THEN req.params["incremento"] ELSE None

\* an id_series argument the constructor and set_id_series accept
GoodIds(ids) ==
    \/ ids.t = "str"
    \/ ids.t = "list" /\ \A i \in 1..Len(ids.l) : ids.l[i].t = "str"

BadDates == call.op = "get_timeseries_range" /\ (call.init.t # "str" \/ call.end.t # "str")

\* a selector with no empty segment: no leading, trailing or doubled comma
WellFormed(s) ==
    /\ Len(s) > 0 => s[1] # "," /\ s[Len(s)] # ","
    /\ \A i \in 1..(Len(s) - 1) : ~(s[i] = "," /\ s[i + 1] = ",")

\* C1: every request a fetch method issues carries in Bmx-Token the token
\* currently stored in the client.
C1_HeaderCarriesCurrentToken ==
    call.op \in FetchOps =>
        \A i \in 1..Len(call.reqs) : call.reqs[i].headers["Bmx-Token"] = token

\* C2: a call on a constructed client that fails with a type error or a value
\* error leaves token, selector and params exactly as they were.
C2_FailedCallKeepsState ==
    [][(pc = "ready" /\ call'.err \in ValidationErrors)
          => (token' = token /\ series' = series /\ params' = params)]_vars

\* C3: the incremento parameter sent with a request is the pct_change of the
\* call that issues it, and None/absent for get_metadata.
C3_IncrementoOfThisCall ==
    call.op \in FetchOps =>
        \A i \in 1..Len(call.reqs) :
            SentIncremento(call.reqs[i]) =
                (IF call.op = "get_metadata" THEN None ELSE call.pct)

C3_Witness ==
    /\ call.op = "get_lastdata" /\ call.pct = None /\ Len(call.reqs) = 1
    /\ "incremento" \in DOMAIN params

\* C4: a fetch call whose pct_change or dates fail validation raises a type or
\* value error and issues no request.
C4_NoRequestOnInvalidArgs ==
    (call.op \in PctOps /\ (call.pct \notin Accepted \/ BadDates))
        => (call.reqs = <<>> /\ call.err \in ValidationErrors)

C4_Witness ==
    /\ call.op = "get_timeseries_range" /\ call.pct = Str("PorcAnual")
    /\ call.init.t = "str" /\ call.end = PyInt /\ call.err = "TypeError"

\* C5: a fetch call that passes validation issues exactly one request; it
\* returns the body exactly when the status is 200 and otherwise raises a
\* request error whose message carries the status.
C5_StatusDecides ==
    (call.op \in FetchOps /\ call.err \notin ValidationErrors) =>
        /\ Len(call.reqs) = 1
        /\ IF call.status = 200
           THEN call.err = "none" /\ call.ret = [given |-> TRUE, value |-> call.body]
           ELSE /\ call.err = "RequestException"
                /\ call.msg.code = call.status
                /\ ~call.ret.given

C5_Witness ==
    /\ call.op \in FetchOps /\ call.status = 204 /\ call.err = "RequestException"

\* C6: pct_change validation accepts None and the three literals and writes
\* them under incremento; another str is a value error; a non-str, non-None
\* value is a type error.
C6_PctClassification ==
    call.op \in PctOps =>
        IF call.pct \in Accepted
        THEN /\ call.err # "ValueError"
             /\ call.err = "TypeError" => BadDates
             /\ "incremento" \in DOMAIN params /\ params["incremento"] = call.pct
        ELSE IF call.pct.t = "str" THEN call.err = "ValueError"
        ELSE call.err = "TypeError"

C6_Witness ==
    /\ call.op = "get_lastdata" /\ call.pct = PyInt /\ call.err = "TypeError"

\* C7 as stated: with a valid token and id_series, a language other than
\* exactly "en" or "es", whatever its type, fails with a value error, and
\* "en" or "es" succeeds and is stored under locale.
C7_AnyOtherLanguageIsValueError ==
    (call.op = "init" /\ call.tok.t = "str" /\ GoodIds(call.ids)) =>
        IF call.lang \in {Str("en"), Str("es")}
        THEN call.err = "none" /\ pc = "ready"
             /\ "locale" \in DOMAIN params /\ params["locale"] = call.lang
        ELSE call.err = "ValueError"

\* C7 amended: with a valid token and id_series, a str language other than
\* "en" or "es" fails with a value error, a non-str language fails with a
\* type error, and "en" or "es" succeeds and is stored under locale.
C7_LanguageValidation ==
    (call.op = "init" /\ call.tok.t = "str" /\ GoodIds(call.ids)) =>
        IF call.lang \in {Str("en"), Str("es")}
        THEN call.err = "none" /\ pc = "ready"
             /\ "locale" \in DOMAIN params /\ params["locale"] = call.lang
        ELSE IF call.lang.t = "str" THEN call.err = "ValueError" /\ pc = "new"
        ELSE call.err = "TypeError" /\ pc = "new"

C7_Witness ==
    /\ call.op = "init" /\ call.tok.t = "str" /\ GoodIds(call.ids)
    /\ call.lang = Str("es") /\ pc = "ready"

\* C8: on a constructed client params.locale is present, is "en" or "es", and
\* is the language the constructor was given.
C8_LocaleKept ==
    pc = "ready" =>
        /\ "locale" \in DOMAIN params
        /\ params["locale"] \in {Str("en"), Str("es")}
        /\ params["locale"] = language

C8_Witness ==
    /\ pc = "ready" /\ call.op = "get_timeseries_range" /\ call.err = "TypeError"
    /\ "incremento" \in DOMAIN params /\ language = Str("es")

\* C9: set_id_series(xs) followed by append_id_series(ys) leaves the selector
\* set_id_series(xs ++ ys) produces: the ids joined by ',' in input order, with
\* no empty segment and no leading or trailing comma.
C9_SetThenAppend ==
    [][(/\ call.op = "set_id_series" /\ call.err = "none" /\ call.ids.t = "list"
        /\ call'.op = "append_id_series" /\ call'.err = "none")
          => (/\ series' = Join(call.ids.l \o call'.ids.l)
              /\ WellFormed(series'))]_vars

\* C10 as stated: the stored token of a constructed client is a non-empty
\* string.
C10_TokenNonEmptyString == pc = "ready" => token.t = "str" /\ token.s # ""

\* C10 amended: the stored token of a constructed client is a string.
C10_TokenIsString == pc = "ready" => token.t = "str"

C10_Witness ==
    /\ pc = "ready" /\ call.op = "set_token" /\ call.tok = PyInt
    /\ call.err = "TypeError" /\ token = Str("t2")
====
